---------------------------- MODULE Spec2Model ----------------------------
(***************************************************************************)
(* Concierge meal generator (src/concierge_app.py): target resolution,    *)
(* catalog filtering, the randomized combo search and plan assembly.      *)
(*                                                                         *)
(* Conventions of the model                                                *)
(*   - A Python str is a sequence of one-character strings, so that        *)
(*     lower(), startswith(), int() and float() are computed character by  *)
(*     character.  None is the sentinel NONE.                              *)
(*   - A Python float that comes from float(str) is held exactly, in       *)
(*     tenths; products with the decimal constants of the code are         *)
(*     computed exactly with a whole part and a fraction in units of 1e-8. *)
(*     round() is Python 3's round-half-to-even.                           *)
(*   - A score is held times 600, which makes every                        *)
(*     coefficient of score_combo an integer.                              *)
(*   - random.sample(top_pool, k) is a nondeterministic choice of k        *)
(*     distinct positions of top_pool while the state of the generator is  *)
(*     unknown, and the sample of the generator's state once it is seeded. *)
(*     The sample is listed in top_pool                                    *)
(*     order: score_combo and the totals are sums and a set of chains, so  *)
(*     the order in which random.sample returns its picks never decides    *)
(*     anything the code does.                                             *)
(***************************************************************************)
EXTENDS Integers, Sequences, FiniteSets, TLC

(***************************************************************************)
(* Strings                                                                 *)
(***************************************************************************)
NONE == <<"<None>">>

UpperChars == <<"A","B","C","D","E","F","G","H","I","J","K","L","M",
                "N","O","P","Q","R","S","T","U","V","W","X","Y","Z">>

LowerChars == <<"a","b","c","d","e","f","g","h","i","j","k","l","m",
                "n","o","p","q","r","s","t","u","v","w","x","y","z">>

LowerChar(c) ==
    IF \E i \in 1..Len(UpperChars) : UpperChars[i] = c
    THEN LowerChars[CHOOSE i \in 1..Len(UpperChars) : UpperChars[i] = c]
    ELSE c

\* str.lower()
Lower(s) == [i \in 1..Len(s) |-> LowerChar(s[i])]

\* str.startswith(prefix)
StartsWith(s, prefix) ==
    /\ Len(prefix) <= Len(s)
    /\ SubSeq(s, 1, Len(prefix)) = prefix

\* Truthiness of an optional str: None and "" are falsy.
Truthy(s) == s # NONE /\ s # <<>>

\* req.get(key, default): the default replaces a missing key only.
GetOr(v, default) == IF v = NONE THEN default ELSE v

(***************************************************************************)
(* int(str) and float(str)                                                 *)
(***************************************************************************)
Digits == <<"0","1","2","3","4","5","6","7","8","9">>

IsDigit(c) == \E i \in 1..10 : Digits[i] = c

DigitVal(c) == (CHOOSE i \in 1..10 : Digits[i] = c) - 1

AllDigits(s) == Len(s) > 0 /\ \A i \in 1..Len(s) : IsDigit(s[i])

RECURSIVE DigitsVal(_)
DigitsVal(s) ==
    IF s = <<>> THEN 0
    ELSE DigitsVal(SubSeq(s, 1, Len(s) - 1)) * 10 + DigitVal(s[Len(s)])

HasSign(s) == Len(s) > 0 /\ s[1] \in {"+", "-"}

Unsigned(s) == IF HasSign(s) THEN Tail(s) ELSE s

SignOf(s) == IF Len(s) > 0 /\ s[1] = "-" THEN -1 ELSE 1

\* int(s) succeeds: an optional sign and decimal digits.  int(None) raises
\* TypeError, int("") and int("12.5") raise ValueError.
IntParses(s) == s # NONE /\ AllDigits(Unsigned(s))

IntOf(s) == SignOf(s) * DigitsVal(Unsigned(s))

DotAt(s) == IF \E i \in 1..Len(s) : s[i] = "."
            THEN CHOOSE i \in 1..Len(s) : s[i] = "." /\ \A j \in 1..(i-1) : s[j] # "."
            ELSE 0

\* float(s) of the special spellings.
FloatIsNan(s) == s # NONE /\ Lower(Unsigned(s)) = <<"n","a","n">>

FloatIsInf(s) == s # NONE /\ Lower(Unsigned(s)) \in {<<"i","n","f">>,
                                                     <<"i","n","f","i","n","i","t","y">>}

\* float(s) of a plain decimal: digits, optionally a point and one more digit
\* (the model's inputs carry at most one decimal place).
FloatIsDecimal(s) ==
    /\ s # NONE
    /\ LET u == Unsigned(s)
           d == DotAt(u)
       IN  IF d = 0 THEN AllDigits(u)
           ELSE /\ AllDigits(SubSeq(u, 1, d - 1) \o SubSeq(u, d + 1, Len(u)))
                /\ Len(u) - d <= 1

FloatParses(s) == FloatIsDecimal(s) \/ FloatIsNan(s) \/ FloatIsInf(s)

\* float(s) of a plain decimal, in tenths.
TenthsOf(s) ==
    LET u == Unsigned(s)
        d == DotAt(u)
    IN  SignOf(s) * (IF d = 0 THEN DigitsVal(u) * 10
                     ELSE DigitsVal(SubSeq(u, 1, d - 1)) * 10
                          + DigitsVal(SubSeq(u, d + 1, Len(u))) * (IF Len(u) = d THEN 0 ELSE 1))

(***************************************************************************)
(* Arithmetic                                                              *)
(***************************************************************************)
Abs(x) == IF x < 0 THEN -x ELSE x

Max(a, b) == IF a >= b THEN a ELSE b

Min(a, b) == IF a <= b THEN a ELSE b

\* round(num / den) for den > 0, ties to the even neighbour (Python 3).
RoundHalfEven(num, den) ==
    LET q == num \div den
        r == num % den
    IN  IF 2 * r < den THEN q
        ELSE IF 2 * r > den THEN q + 1
        ELSE IF q % 2 = 0 THEN q ELSE q + 1

\* The power of two with Pow2Floor(x) <= x < 2 * Pow2Floor(x), for x >= 1.
RECURSIVE Pow2Floor(_)
Pow2Floor(x) == IF x < 2 THEN 1 ELSE 2 * Pow2Floor(x \div 2)

(***************************************************************************)
(* Energy and macros (concierge_app.py 340-361, 384-390)                   *)
(***************************************************************************)
\* mifflin_st_jeor: the sex term.
SexTerm(sex) ==
    IF Truthy(sex) /\ StartsWith(Lower(sex), <<"m">>) THEN 5 ELSE -161

\* activity_multiplier, times 1000.
activity_multiplier(level) ==
    LET l == Lower(IF Truthy(level) THEN level ELSE <<>>)
    IN  CASE l = <<"s","e","d","e","n","t","a","r","y">> -> 1200
          [] l = <<"l","i","g","h","t">> -> 1375
          [] l = <<"m","o","d","e","r","a","t","e">> -> 1550
          [] l = <<"v","e","r","y">> -> 1725
          [] l = <<"a","t","h","l","e","t","e">> -> 1900
          [] OTHER -> 1550

\* mifflin_st_jeor(sex, lb_to_kg(weight_lb), in_to_cm(height_in), age), with
\* the weight and the height in tenths:
\*   10 * (w * 0.45359237) + 6.25 * (h * 2.54) - 5 * age + s
\* as <<whole, frac>>, the value being whole + frac / 1e8, 0 <= frac < 1e8.
mifflin_st_jeor(sex, w10, h10, age) ==
    LET t1 == w10 * 4535          \* w10 * 0.4535, in 1e-4
        t2 == w10 * 9237          \* w10 * 0.00009237, in 1e-8
        t3 == h10 * 15875         \* h10 * 1.5875, in 1e-4
        fsum == (t1 % 10000) * 10000 + (t2 % 100000000) + (t3 % 10000) * 10000
    IN  << (t1 \div 10000) + (t2 \div 100000000) + (t3 \div 10000) + (fsum \div 100000000)
              - 5 * age + SexTerm(sex),
           fsum % 100000000 >>

\* calc_tdee_from_stats: int(round(bmr * activity_multiplier(activity))).
calc_tdee_from_stats(sex, w10, h10, age, activity) ==
    LET bmr == mifflin_st_jeor(sex, w10, h10, age)
        m == activity_multiplier(activity)
        fh == bmr[2] \div 10000
        fl == bmr[2] % 10000
        g == ((fh * m) % 10000) * 10000 + fl * m               \* in 1e-8
        p == bmr[1] * m + ((fh * m) \div 10000) + (g \div 100000000) \* 1000 * bmr * mult, whole
        gf == g % 100000000                                     \* and its fraction
        q == p \div 1000
        r == p % 1000
    IN  IF r < 500 THEN q
        ELSE IF r > 500 \/ gf > 0 THEN q + 1
        ELSE IF q % 2 = 0 THEN q ELSE q + 1

\* int(round(x * 1.10)) for x >= 0.  The double 1.10 lies above 11/10, so
\* a product that is exactly k + 1/2 may round to the next double above the tie.
RoundTimes110(x) ==
    LET k == (11 * x - 5) \div 10
    IN  IF x % 10 = 5 /\ 4 * ((11 * x) \div 5) > 11 * Pow2Floor(k)
        THEN k + 1
        ELSE RoundHalfEven(11 * x, 10)

GoalMutantNoMultiplier(tdee, goal) == tdee

GoalMutantUnknownIsMaintain(tdee, goal) ==
    LET g == Lower(IF Truthy(goal) THEN goal ELSE <<"l","o","s","s","2","5">>)
    IN  CASE g = <<"l","o","s","s","2","5">> -> RoundHalfEven(3 * tdee, 4)
          [] g = <<"g","a","i","n","1","0">> -> RoundHalfEven(11 * tdee, 10)
          [] OTHER -> tdee

\* calorie_goal_from_tdee(tdee, goal)
calorie_goal_from_tdee(tdee, goal) ==
    LET g == Lower(IF Truthy(goal) THEN goal ELSE <<"l","o","s","s","2","5">>)
        gain == IF tdee >= 0 THEN RoundTimes110(tdee) ELSE -RoundTimes110(-tdee)
    IN  CASE g = <<"l","o","s","s","2","5">> -> RoundHalfEven(3 * tdee, 4)
          [] g = <<"m","a","i","n","t","a","i","n">> -> tdee
          [] g = <<"g","a","i","n","1","0">> -> gain
          [] OTHER -> RoundHalfEven(3 * tdee, 4)

\* int(round(0.35 * x / 4)) for x >= 0.  The double 0.35 lies below 7/20, so
\* a product that is exactly an integer may round to the double below it,
\* and the quotient then falls below the tie.
RoundDefaultProtein(x) ==
    IF x % 80 = 40 /\ 4 * ((7 * x) \div 20) > 7 * Pow2Floor((7 * x) \div 20)
    THEN (7 * x - 40) \div 80
    ELSE RoundHalfEven(7 * x, 80)

MacroMutantFatAtFourKcal(calories, protein_g) ==
    LET p == IF protein_g = <<>> THEN RoundHalfEven(7 * calories, 80) ELSE protein_g[1]
    IN  << p, RoundHalfEven(calories - p * 4, 8), RoundHalfEven(calories - p * 4, 8) >>

\* macro_targets(calories, protein_g): <<protein_g, carbs_g, fat_g>>.
\* protein_g is <<>> for None, <<g>> for an override.
macro_targets(calories, protein_g) ==
    LET p == IF protein_g = <<>>
             THEN (IF calories >= 0 THEN RoundDefaultProtein(calories)
                   ELSE -RoundDefaultProtein(-calories))
             ELSE protein_g[1]
        remaining_cal == calories - p * 4
    IN  << p, RoundHalfEven(remaining_cal, 8), RoundHalfEven(remaining_cal, 18) >>

(***************************************************************************)
(* Catalog, filter and score (concierge_app.py 373-382, 410-414)           *)
(***************************************************************************)
\* float scores are held times 600: 1/6, 8.5, 0.7 * 1.25, 0.7, 0.3 * 1.35,
\* 0.3 and 0.4 become 100, 5100, 525, 420, 243, 180 and 240.
RECURSIVE SumOver(_, _, _)
\* sum(x[field] for x in picks), picks a sequence of positions of pool
SumOver(pool, picks, field) ==
    IF picks = <<>> THEN 0
    ELSE pool[picks[1]][field] + SumOver(pool, Tail(picks), field)

\* The totals of a combo: meta of score_combo.
Totals(pool, picks) ==
    [K |-> SumOver(pool, picks, "K"), P |-> SumOver(pool, picks, "P"),
     C |-> SumOver(pool, picks, "C"), F |-> SumOver(pool, picks, "F")]

\* {x["chain"] for x in picks}
Chains(pool, picks) == {pool[picks[i]].chain : i \in 1..Len(picks)}

ScoreMutantPenalizesSurplus(pool, picks, cal_target, p_target, c_target, f_target) ==
    LET meta == Totals(pool, picks)
    IN  << 100 * Abs(meta.K - cal_target) + 5100 * Abs(p_target - meta.P)
             + Max(0, 420 * meta.F - 525 * f_target)
             + Max(0, 180 * meta.C - 243 * c_target)
             - 240 * (Cardinality(Chains(pool, picks)) - 1), meta >>

ScoreMutantSignedCalories(pool, picks, cal_target, p_target, c_target, f_target) ==
    LET meta == Totals(pool, picks)
    IN  << 100 * (meta.K - cal_target) + 5100 * Max(0, p_target - meta.P)
             + Max(0, 420 * meta.F - 525 * f_target)
             + Max(0, 180 * meta.C - 243 * c_target)
             - 240 * (Cardinality(Chains(pool, picks)) - 1), meta >>

\* score_combo: <<score * 600, meta>>
score_combo(pool, picks, cal_target, p_target, c_target, f_target) ==
    LET meta == Totals(pool, picks)
        cal_pen == 100 * Abs(meta.K - cal_target)
        prot_pen == 5100 * Max(0, p_target - meta.P)
        macro_pen == Max(0, 420 * meta.F - 525 * f_target)
                       + Max(0, 180 * meta.C - 243 * c_target)
        variety_bonus == -240 * (Cardinality(Chains(pool, picks)) - 1)
    IN  << cal_pen + prot_pen + macro_pen + variety_bonus, meta >>

FilterMutantNoFallback(menu_, cuisine_, chain_) ==
    LET CuisineOk(m) == StartsWith(Lower(m.cuisine), Lower(cuisine_))
        ChainOk(m) == Lower(m.chain) = Lower(chain_)
        out1 == IF Truthy(cuisine_) THEN SelectSeq(menu_, CuisineOk) ELSE menu_
    IN  IF Truthy(chain_) THEN SelectSeq(out1, ChainOk) ELSE out1

FilterMutantCaseSensitive(menu_, cuisine_, chain_) ==
    LET CuisineOk(m) == StartsWith(m.cuisine, cuisine_)
        ChainOk(m) == m.chain = chain_
        out1 == IF Truthy(cuisine_) THEN SelectSeq(menu_, CuisineOk) ELSE menu_
        out2 == IF Truthy(chain_) THEN SelectSeq(out1, ChainOk) ELSE out1
    IN  IF out2 # <<>> THEN out2 ELSE menu_

\* filter_menu(menu, cuisine, chain)
filter_menu(menu_, cuisine_, chain_) ==
    LET CuisineOk(m) == StartsWith(Lower(m.cuisine), Lower(cuisine_))
        ChainOk(m) == Lower(m.chain) = Lower(chain_)
        out1 == IF Truthy(cuisine_) THEN SelectSeq(menu_, CuisineOk) ELSE menu_
        out2 == IF Truthy(chain_) THEN SelectSeq(out1, ChainOk) ELSE out1
    IN  IF out2 # <<>> THEN out2 ELSE menu_

(***************************************************************************)
(* pick_combo: the restricted pool and the draws (concierge_app.py 392-408)*)
(***************************************************************************)
\* max(10, ...) of line 394
TopPoolFloor == 10

\* min(5000, max(1500, len(top_pool) * 250)) of line 396
TriesMax == 5000

TriesMin == 1500

TriesPerItem == 250

\* range(1500) of line 402
RefineTries == 1500

\* the 125 kcal band of lines 401 and 407
CalorieBand == 125

\* abs(x["K"] - ideal), ideal = cal_target / max(1, meals_per_day), times
\* max(1, meals_per_day)
CalorieDistance(item, cal_target, meals) ==
    Abs(item.K * Max(1, meals) - cal_target)

\* sorted(pool, key=...): the positions of pool in key order, equal keys in
\* pool order (sorted is stable).
SortedPositions(pool, cal_target, meals) ==
    LET n == Len(pool)
        key(i) == CalorieDistance(pool[i], cal_target, meals)
        Before(j, i) == key(j) < key(i) \/ (key(j) = key(i) /\ j < i)
        rank(i) == 1 + Cardinality({j \in 1..n : Before(j, i)})
    IN  [r \in 1..n |-> CHOOSE i \in 1..n : rank(i) = r]

\* len(pool) * 0.8 truncated by int()
TopPoolSize(n) == Min(n, Max(TopPoolFloor, (4 * n) \div 5))

TopPoolMutantUnsorted(pool, cal_target, meals) ==
    [r \in 1..TopPoolSize(Len(pool)) |-> r]

\* top_pool of line 394, as positions of pool
TopPool(pool, cal_target, meals) ==
    SubSeq(SortedPositions(pool, cal_target, meals), 1, TopPoolSize(Len(pool)))

TriesMutantNoFloor(top) == Min(TriesMax, Len(top) * TriesPerItem)

\* TRIES of line 396
Tries(top) == Min(TriesMax, Max(TriesMin, Len(top) * TriesPerItem))

DrawSizeMutantIgnoresPool(top, meals) == meals

\* k of lines 398 and 403
DrawSize(top, meals) == Min(meals, Len(top))

RECURSIVE Increasing(_, _, _)
\* the strictly increasing sequences of length k over lo..n
Increasing(lo, n, k) ==
    IF k = 0 THEN {<<>>}
    ELSE UNION {{<<i>> \o t : t \in Increasing(i + 1, n, k - 1)} : i \in lo..(n - k + 1)}

\* random.sample(population, k) accepts 0 <= k <= len(population).
SampleOk(top, k) == 0 <= k /\ k <= Len(top)

SamplesMutantWithReplacement(top, k) ==
    {[i \in 1..k |-> top[idx[i]]] : idx \in Increasing(1, Len(top), k)}
    \cup {[i \in 1..k |-> top[1]] : j \in 1..Len(top)}

\* The outcomes of random.sample(top_pool, k): k distinct entries of top_pool
\* (as positions of pool), listed in top_pool order.
Samples(top, k) ==
    {[i \in 1..k |-> top[idx[i]]] : idx \in Increasing(1, Len(top), k)}

\* The state of the module-level generator that random.sample draws from:
\* Unseeded when nothing is known of it (it is seeded from the system at
\* import), <<g>> with g in 0..Period-1 after random.seed.
Unseeded == <<>>

\* The number of states of the seeded generator.
Period == 3

\* The generator steps to its next state with every sample that draws an
\* entry; random.sample(population, 0) draws none.
Advance(g, k) == IF k = 0 THEN g ELSE << (g[1] + 1) % Period >>

\* a comes before b, position by position
LexLess(a, b) ==
    \E i \in 1..Len(a) : a[i] < b[i] /\ \A j \in 1..(i - 1) : a[j] = b[j]

\* The sample a seeded generator returns in state g: the samples are counted
\* in order and the state picks one.
SampleAt(top, k, g) ==
    LET all == Samples(top, k)
    IN  CHOOSE x \in all :
            Cardinality({y \in all : LexLess(y, x)}) = g[1] % Cardinality(all)

SampleMutantIgnoresSeed(top, k, g) ==
    {<< x, IF g = Unseeded THEN g ELSE Advance(g, k) >> : x \in Samples(top, k)}

\* random.sample(top_pool, k): the pairs <<sample, next generator state>>.
\* An unseeded generator can return every sample; a seeded one returns the
\* sample of its state.
RandomSample(top, k, g) ==
    IF g = Unseeded
    THEN {<< x, Unseeded >> : x \in Samples(top, k)}
    ELSE {<< SampleAt(top, k, g), Advance(g, k) >>}

(***************************************************************************)
(* Request handling (concierge_app.py 663-702, 780-809)                     *)
(***************************************************************************)
\* DEFAULT_MEALS_PER_DAY of line 371
DEFAULT_MEALS_PER_DAY == 4

\* req.get("days", 3) of line 667
DefaultDays == 3

\* tdee = 2000 of lines 687 and 803
DefaultTdee == 2000

\* calories_resolved = 2000 of line 691
InvalidCalories == 2000

S_loss25 == <<"l","o","s","s","2","5">>

S_moderate == <<"m","o","d","e","r","a","t","e">>

NoNote == [kind |-> "none", tdee |-> 0, goal |-> <<>>, kcal |-> 0]

\* f"Using explicit calories = {calories_resolved}"
ExplicitNote(c) == [kind |-> "explicit", tdee |-> 0, goal |-> <<>>, kcal |-> c]

\* "Fallback: TDEE defaulted to 2000"
FallbackNote == [kind |-> "fallback", tdee |-> 0, goal |-> <<>>, kcal |-> 0]

\* f"TDEE {tdee} -> goal '{goal}' => {calories_resolved} kcal/day"
TdeeNote(t, g, c) == [kind |-> "tdee", tdee |-> t, goal |-> g, kcal |-> c]

\* "Invalid inputs; defaulted to 2000 kcal"
InvalidNote == [kind |-> "invalid", tdee |-> 0, goal |-> <<>>, kcal |-> 0]

\* all([sex, weight_lb, height_in, age]) of line 684
AllStats(r) ==
    Truthy(r.sex) /\ Truthy(r.weight_lb) /\ Truthy(r.height_in) /\ Truthy(r.age)

\* Line 685 raises: float() or int() of an unparseable string, or round() of
\* the nan or inf that a non-finite weight or height makes of the BMR.
StatsRaise(r) ==
    \/ ~FloatIsDecimal(r.weight_lb)
    \/ ~FloatIsDecimal(r.height_in)
    \/ ~IntParses(r.age)

\* The try block of lines 678-691 raises and control reaches the except.
ResolveRaises(r) ==
    IF Truthy(r.calories) THEN ~IntParses(r.calories)
    ELSE IF Truthy(r.tdee) THEN ~IntParses(r.tdee)
    ELSE AllStats(r) /\ StatsRaise(r)

\* tdee of lines 682-687 when nothing raises
ResolvedTdee(r) ==
    IF Truthy(r.tdee) THEN IntOf(r.tdee)
    ELSE IF AllStats(r)
         THEN calc_tdee_from_stats(r.sex, TenthsOf(r.weight_lb), TenthsOf(r.height_in),
                                   IntOf(r.age), GetOr(r.activity, S_moderate))
         ELSE DefaultTdee

ResolveMutantGoalOnExplicit(r) ==
    LET goal == GetOr(r.goal, S_loss25)
    IN  IF ResolveRaises(r) THEN [calories |-> InvalidCalories, note |-> InvalidNote]
        ELSE IF Truthy(r.calories)
        THEN [calories |-> calorie_goal_from_tdee(IntOf(r.calories), goal),
              note |-> ExplicitNote(IntOf(r.calories))]
        ELSE LET t == ResolvedTdee(r)
                 c == calorie_goal_from_tdee(t, goal)
             IN  [calories |-> c,
                  note |-> IF ~Truthy(r.tdee) /\ ~AllStats(r) THEN FallbackNote
                           ELSE TdeeNote(t, goal, c)]

ResolveMutantInvalidKeepsGoal(r) ==
    LET goal == GetOr(r.goal, S_loss25)
    IN  IF ResolveRaises(r)
        THEN [calories |-> calorie_goal_from_tdee(DefaultTdee, goal), note |-> FallbackNote]
        ELSE IF Truthy(r.calories)
        THEN [calories |-> IntOf(r.calories), note |-> ExplicitNote(IntOf(r.calories))]
        ELSE LET t == ResolvedTdee(r)
                 c == calorie_goal_from_tdee(t, goal)
             IN  [calories |-> c,
                  note |-> IF ~Truthy(r.tdee) /\ ~AllStats(r) THEN FallbackNote
                           ELSE TdeeNote(t, goal, c)]

\* Lines 677-691: calories_resolved and meta_note
ResolveTargets(r) ==
    LET goal == GetOr(r.goal, S_loss25)
    IN  IF ResolveRaises(r) THEN [calories |-> InvalidCalories, note |-> InvalidNote]
        ELSE IF Truthy(r.calories)
        THEN [calories |-> IntOf(r.calories), note |-> ExplicitNote(IntOf(r.calories))]
        ELSE LET t == ResolvedTdee(r)
                 c == calorie_goal_from_tdee(t, goal)
             IN  [calories |-> c,
                  note |-> IF ~Truthy(r.tdee) /\ ~AllStats(r) THEN FallbackNote
                           ELSE TdeeNote(t, goal, c)]

ProteinMutantIgnoresWeight(r) == <<>>

\* Lines 694-698: protein_g, <<>> for None.  round() of nan or inf raises,
\* and 0.0 is falsy.
ResolveProtein(r) ==
    IF Truthy(r.weight_lb) /\ FloatIsDecimal(r.weight_lb) /\ TenthsOf(r.weight_lb) # 0
    THEN << RoundHalfEven(TenthsOf(r.weight_lb), 10) >>
    ELSE <<>>

\* Lines 670-675: meals_per_day
ResolveMeals(r) ==
    LET m == IF r.meals_per_day = NONE THEN DEFAULT_MEALS_PER_DAY
             ELSE IF IntParses(r.meals_per_day) THEN IntOf(r.meals_per_day)
             ELSE DEFAULT_MEALS_PER_DAY
    IN  IF m \in {2, 3, 4} THEN m ELSE DEFAULT_MEALS_PER_DAY

\* int(req.get("days", 3)) of line 667 raises
DaysRaise(r) == r.days # NONE /\ ~IntParses(r.days)

ResolveDays(r) == IF r.days = NONE THEN DefaultDays ELSE IntOf(r.days)

\* req.get(key) or None
OrNone(v) == IF Truthy(v) THEN v ELSE NONE

(***************************************************************************)
(* main_cli, headless (lines 795-809).  argparse has typed the arguments:  *)
(* an absent int or float is <<>>, a present one <<v>> (floats in tenths). *)
(***************************************************************************)
TruthyNum(o) == o # <<>> /\ o[1] # 0

CliAllStats(a) ==
    Truthy(a.sex) /\ TruthyNum(a.weight_lb) /\ TruthyNum(a.height_in) /\ TruthyNum(a.age)

\* Lines 795-804
CliResolveCalories(a) ==
    IF TruthyNum(a.calories) THEN a.calories[1]
    ELSE calorie_goal_from_tdee(
            IF TruthyNum(a.tdee) THEN a.tdee[1]
            ELSE IF CliAllStats(a)
                 THEN calc_tdee_from_stats(a.sex, a.weight_lb[1], a.height_in[1],
                                           a.age[1], a.activity)
                 ELSE DefaultTdee,
            a.goal)

\* Line 807
CliResolveProtein(a) ==
    IF TruthyNum(a.weight_lb) THEN << RoundHalfEven(a.weight_lb[1], 10) >> ELSE <<>>

(***************************************************************************)
(* State                                                                   *)
(***************************************************************************)
VARIABLES
    entry,          \* who runs: "web" (_resolve_from_request), "cli" (main_cli,
                    \* headless), "call" (generate_plan called directly),
                    \* "filter" (filter_menu called directly)
    req,            \* request.args of the web entry, args of the cli entry
    MENU,           \* the module-level catalog
    pc,             \* the position of the run
    calories_resolved, meta_note,              \* locals of _resolve_from_request
    calories, cuisine, chain, days, protein_g_override, meals_per_day,
                                               \* parameters of generate_plan
    menu, targets, plan_days,                  \* locals of generate_plan
    top_pool, TRIES, trial, best_score, best_combo, best_meta,
                                               \* locals of pick_combo
    data,           \* the plan returned
    rng,            \* the state of the module-level generator of random
    seed            \* the state rng had when pick_combo was entered

vars == << entry, req, MENU, pc, calories_resolved, meta_note,
           calories, cuisine, chain, days, protein_g_override, meals_per_day,
           menu, targets, plan_days,
           top_pool, TRIES, trial, best_score, best_combo, best_meta, data,
           rng, seed >>

resolveVars == << calories_resolved, meta_note >>

paramVars == << calories, cuisine, chain, days, protein_g_override, meals_per_day >>

planVars == << menu, targets, plan_days >>

pickVars == << top_pool, TRIES, trial, best_score, best_combo, best_meta >>

rngVars == << rng, seed >>

NoData == [days |-> 0, cuisine |-> NONE, chain |-> NONE, meals_per_day |-> 0,
           protein_target |-> 0, carb_target |-> 0, fat_target |-> 0,
           plan |-> <<>>, note |-> NoNote]

(***************************************************************************)
(* Operations                                                              *)
(***************************************************************************)
\* _resolve_from_request, lines 664-700, up to its call of generate_plan; the
\* int() of line 667 is outside every try and its error leaves the function.
ResolveFromRequest ==
    /\ pc = "request"
    /\ entry = "web"
    /\ \/ /\ DaysRaise(req)
          /\ pc' = "raised"
          /\ UNCHANGED << resolveVars, paramVars >>
       \/ /\ ~DaysRaise(req)
          /\ calories_resolved' = ResolveTargets(req).calories
          /\ meta_note' = ResolveTargets(req).note
          /\ calories' = ResolveTargets(req).calories
          /\ cuisine' = OrNone(req.cuisine)
          /\ chain' = OrNone(req.chain)
          /\ days' = ResolveDays(req)
          /\ protein_g_override' = ResolveProtein(req)
          /\ meals_per_day' = ResolveMeals(req)
          /\ pc' = "generate_plan"
    /\ UNCHANGED << entry, req, MENU, planVars, pickVars, data, rngVars >>

\* main_cli with --headless, lines 795-809, up to headless_export's call of
\* generate_plan.
MainCli ==
    /\ pc = "request"
    /\ entry = "cli"
    /\ calories_resolved' = CliResolveCalories(req)
    /\ calories' = CliResolveCalories(req)
    /\ cuisine' = req.cuisine
    /\ chain' = req.chain
    /\ days' = req.days
    /\ protein_g_override' = CliResolveProtein(req)
    /\ meals_per_day' = req.meals_per_day
    /\ pc' = "generate_plan"
    /\ UNCHANGED << entry, req, MENU, meta_note, planVars, pickVars, data, rngVars >>

\* generate_plan, lines 418-420
GeneratePlan ==
    /\ pc = "generate_plan"
    /\ menu' = filter_menu(MENU, cuisine, chain)
    /\ targets' = macro_targets(calories, protein_g_override)
    /\ plan_days' = <<>>
    /\ pc' = "day"
    /\ UNCHANGED << entry, req, MENU, resolveVars, paramVars, pickVars, data, rngVars >>

\* for _ in range(days), line 421: one more day; pick_combo is entered and
\* runs lines 393-396.
EnterPickCombo ==
    /\ pc = "day"
    /\ Len(plan_days) < days
    /\ top_pool' = TopPool(menu, calories, meals_per_day)
    /\ TRIES' = Tries(TopPool(menu, calories, meals_per_day))
    /\ trial' = 0
    /\ best_score' = <<>>
    /\ best_combo' = <<>>
    /\ best_meta' = <<>>
    /\ seed' = rng
    /\ pc' = "trials"
    /\ UNCHANGED << entry, req, MENU, resolveVars, paramVars, planVars, data, rng >>

TrialMutantReplacesOnTie ==
    /\ pc = "trials"
    /\ trial < TRIES
    /\ SampleOk(top_pool, DrawSize(top_pool, meals_per_day))
    /\ \E draw \in RandomSample(top_pool, DrawSize(top_pool, meals_per_day), rng) :
          LET sm == score_combo(menu, draw[1], calories, targets[1], targets[2], targets[3])
          IN  /\ rng' = draw[2]
              /\ IF best_score = <<>> \/ sm[1] <= best_score[1]
                 THEN /\ best_score' = << sm[1] >>
                      /\ best_combo' = << draw[1] >>
                      /\ best_meta' = << sm[2] >>
                 ELSE UNCHANGED << best_score, best_combo, best_meta >>
    /\ trial' = trial + 1
    /\ UNCHANGED << entry, req, MENU, pc, resolveVars, paramVars, planVars,
                    top_pool, TRIES, data, seed >>

\* One pass of the loop of lines 397-400.  random.sample raises ValueError
\* for a sample size that is negative or larger than the population.
Trial ==
    /\ pc = "trials"
    /\ trial < TRIES
    /\ IF ~SampleOk(top_pool, DrawSize(top_pool, meals_per_day))
       THEN /\ pc' = "raised"
            /\ UNCHANGED << trial, best_score, best_combo, best_meta, rng >>
       ELSE /\ \E draw \in RandomSample(top_pool, DrawSize(top_pool, meals_per_day), rng) :
                 LET picks == draw[1]
                     sm == score_combo(menu, picks, calories,
                                       targets[1], targets[2], targets[3])
                 IN  /\ rng' = draw[2]
                     /\ IF best_score = <<>> \/ sm[1] < best_score[1]
                        THEN /\ best_score' = << sm[1] >>
                             /\ best_combo' = << picks >>
                             /\ best_meta' = << sm[2] >>
                        ELSE UNCHANGED << best_score, best_combo, best_meta >>
            /\ trial' = trial + 1
            /\ pc' = pc
    /\ UNCHANGED << entry, req, MENU, resolveVars, paramVars, planVars,
                    top_pool, TRIES, data, seed >>

EndTrialsMutantAlwaysRefines ==
    /\ pc = "trials"
    /\ trial = TRIES
    /\ pc' = "refine"
    /\ trial' = 0
    /\ UNCHANGED << entry, req, MENU, resolveVars, paramVars, planVars,
                    top_pool, TRIES, best_score, best_combo, best_meta, data, rngVars >>

\* Line 401: the main loop is over; the refinement loop is entered or skipped.
EndTrials ==
    /\ pc = "trials"
    /\ trial = TRIES
    /\ IF best_meta # <<>> /\ Abs(best_meta[1].K - calories) > CalorieBand
       THEN pc' = "refine"
       ELSE pc' = "return_combo"
    /\ trial' = 0
    /\ UNCHANGED << entry, req, MENU, resolveVars, paramVars, planVars,
                    top_pool, TRIES, best_score, best_combo, best_meta, data, rngVars >>

RefineMutantStaleTotals ==
    /\ pc = "refine"
    /\ trial < RefineTries
    /\ \E draw \in RandomSample(top_pool, DrawSize(top_pool, meals_per_day), rng) :
          LET picks == draw[1]
              sm == score_combo(menu, picks, calories, targets[1], targets[2], targets[3])
          IN  /\ rng' = draw[2]
              /\ IF sm[1] < best_score[1]
                 THEN /\ best_score' = << sm[1] >>
                      /\ best_combo' = << picks >>
                      /\ best_meta' = best_meta
                      /\ pc' = IF Abs(sm[2].K - calories) <= CalorieBand
                               THEN "return_combo" ELSE "refine"
                 ELSE UNCHANGED << pc, best_score, best_combo, best_meta >>
    /\ trial' = trial + 1
    /\ UNCHANGED << entry, req, MENU, resolveVars, paramVars, planVars,
                    top_pool, TRIES, data, seed >>

\* One pass of the loop of lines 402-407.
Refine ==
    /\ pc = "refine"
    /\ trial < RefineTries
    /\ \E draw \in RandomSample(top_pool, DrawSize(top_pool, meals_per_day), rng) :
          LET picks == draw[1]
              sm == score_combo(menu, picks, calories, targets[1], targets[2], targets[3])
          IN  /\ rng' = draw[2]
              /\ IF sm[1] < best_score[1]
                 THEN /\ best_score' = << sm[1] >>
                      /\ best_combo' = << picks >>
                      /\ best_meta' = << sm[2] >>
                      /\ pc' = IF Abs(sm[2].K - calories) <= CalorieBand
                               THEN "return_combo" ELSE "refine"
                 ELSE UNCHANGED << pc, best_score, best_combo, best_meta >>
    /\ trial' = trial + 1
    /\ UNCHANGED << entry, req, MENU, resolveVars, paramVars, planVars,
                    top_pool, TRIES, data, seed >>

\* The refinement loop runs out.
EndRefine ==
    /\ pc = "refine"
    /\ trial = RefineTries
    /\ pc' = "return_combo"
    /\ UNCHANGED << entry, req, MENU, resolveVars, paramVars, planVars, pickVars, data, rngVars >>

\* Line 408 and line 423: pick_combo returns and the day is appended.
ReturnCombo ==
    /\ pc = "return_combo"
    /\ LET picks == IF best_combo # <<>> /\ best_combo[1] # <<>> THEN best_combo[1] ELSE <<>>
           meta == IF best_meta # <<>> THEN best_meta[1]
                   ELSE [K |-> 0, P |-> 0, C |-> 0, F |-> 0]
       IN  plan_days' = Append(plan_days,
                [items |-> picks, K |-> meta.K, P |-> meta.P, C |-> meta.C, F |-> meta.F])
    /\ pc' = "day"
    /\ UNCHANGED << entry, req, MENU, resolveVars, paramVars, menu, targets, pickVars, data, rngVars >>

\* Lines 424-429: generate_plan returns; line 701 adds the note.
ReturnPlan ==
    /\ pc = "day"
    /\ Len(plan_days) >= days
    /\ data' = [days |-> days, cuisine |-> cuisine, chain |-> chain,
                meals_per_day |-> meals_per_day,
                protein_target |-> targets[1], carb_target |-> targets[2],
                fat_target |-> targets[3],
                plan |-> plan_days,
                note |-> IF entry = "web" THEN meta_note ELSE NoNote]
    /\ pc' = "done"
    /\ UNCHANGED << entry, req, MENU, resolveVars, paramVars, planVars, pickVars, rngVars >>

\* filter_menu called on its own.
FilterMenu ==
    /\ pc = "filter"
    /\ menu' = filter_menu(MENU, cuisine, chain)
    /\ pc' = "filtered"
    /\ UNCHANGED << entry, req, MENU, resolveVars, paramVars, targets, plan_days,
                    pickVars, data, rngVars >>

\* macro_targets called on its own.
MacroTargets ==
    /\ pc = "macro_targets"
    /\ targets' = macro_targets(calories, protein_g_override)
    /\ pc' = "returned"
    /\ UNCHANGED << entry, req, MENU, resolveVars, paramVars, menu, plan_days,
                    pickVars, data, rngVars >>

\* calorie_goal_from_tdee called on its own, tdee and goal in req.
CalorieGoal ==
    /\ pc = "calorie_goal"
    /\ calories_resolved' = calorie_goal_from_tdee(req.tdee[1], req.goal)
    /\ pc' = "returned"
    /\ UNCHANGED << entry, req, MENU, meta_note, paramVars, planVars, pickVars, data, rngVars >>

\* score_combo called on its own: the combo is best_combo, as positions of
\* menu; the targets are calories and targets.
ScoreCombo ==
    /\ pc = "score_combo"
    /\ LET sm == score_combo(menu, best_combo[1], calories,
                             targets[1], targets[2], targets[3])
       IN  /\ best_score' = << sm[1] >>
           /\ best_meta' = << sm[2] >>
    /\ pc' = "returned"
    /\ UNCHANGED << entry, req, MENU, resolveVars, paramVars, planVars,
                    top_pool, TRIES, trial, best_combo, data, rngVars >>

\* Another request, served by another thread, runs line 398 or 403 of its
\* own pick_combo on a pool that is not empty: random.sample steps the
\* generator of the random module, which every request shares.
OtherRequestDraws ==
    /\ pc \in {"generate_plan", "day", "trials", "refine", "return_combo"}
    /\ rng # Unseeded
    /\ rng' = Advance(rng, 1)
    /\ UNCHANGED << entry, req, MENU, pc, resolveVars, paramVars, planVars, pickVars,
                    data, seed >>

Next ==
    \/ ResolveFromRequest
    \/ MainCli
    \/ GeneratePlan
    \/ EnterPickCombo
    \/ Trial
    \/ EndTrials
    \/ Refine
    \/ EndRefine
    \/ ReturnCombo
    \/ ReturnPlan

(***************************************************************************)
(* Inputs                                                                  *)
(***************************************************************************)
Item(name, chain_, cuisine_, k, p, c, f) ==
    [name |-> name, chain |-> chain_, cuisine |-> cuisine_, K |-> k, P |-> p, C |-> c, F |-> f]

S_KFC == <<"K","F","C">>

S_Sub == <<"S","u","b">>

S_Tex == <<"T","e","x">>

S_TexMex == <<"T","e","x","M","e","x">>

S_Thai == <<"T","h","a","i">>

Bowl == Item("bowl", S_KFC, S_Tex, 500, 40, 40, 15)

Wrap == Item("wrap", S_Sub, S_Thai, 700, 30, 80, 25)

Taco == Item("taco", S_KFC, S_TexMex, 300, 20, 30, 10)

\* A catalog of n entries with the same chain and calories growing by 50.
Ladder(n) == [i \in 1..n |-> Item("dish", S_Sub, S_Thai, 200 + 50 * i, 20 + i, 30, 10)]

\* The largest number of days asked for in a direct call of generate_plan.
MaxDays == 2

\* The size of the largest catalog: one more than TopPoolFloor, so that the
\* restricted pool is a proper part of the pool.
BigCatalog == 11

Catalogs == { <<>>, <<Bowl>>, <<Bowl, Wrap, Taco>>, Ladder(BigCatalog) }

\* The filter strings: none, empty, a prefix in another case, a full name,
\* a string no entry matches.
CuisineInputs == { NONE, <<>>, <<"t","E">>, <<"t","h","a","i">>, <<"T","e","x","M","e","x">>,
                   <<"z","z">> }

ChainInputs == { NONE, <<>>, <<"k","f","c">>, <<"S","u","b">>, <<"K","F">> }

TypeOKInit ==
    /\ req = [calories |-> NONE, tdee |-> NONE, goal |-> NONE, sex |-> NONE,
              weight_lb |-> NONE, height_in |-> NONE, age |-> NONE, activity |-> NONE,
              cuisine |-> NONE, chain |-> NONE, days |-> NONE, meals_per_day |-> NONE]
    /\ calories_resolved = 0
    /\ meta_note = NoNote
    /\ menu = <<>>
    /\ targets = <<0, 0, 0>>
    /\ plan_days = <<>>
    /\ top_pool = <<>>
    /\ TRIES = 0
    /\ trial = 0
    /\ best_score = <<>>
    /\ best_combo = <<>>
    /\ best_meta = <<>>
    /\ data = NoData

PlanCase(cat, cal, prot, m, d) ==
    [cat |-> cat, cal |-> cal, prot |-> prot, m |-> m, d |-> d]

\* The direct calls of generate_plan: catalog, calories, protein override,
\* meals per day, days.  Every catalog meets a calorie target inside and
\* outside the 125 kcal band of its combos, a draw size below, at and above
\* its size, and zero, one and several days.
PlanCases ==
    {PlanCase(<<>>, cal, <<>>, m, d) :
        cal \in {100, 1000}, m \in {1, DEFAULT_MEALS_PER_DAY}, d \in (-1)..MaxDays}
    \cup {PlanCase(<<Bowl>>, cal, <<80>>, m, 1) : cal \in {500, 1000}, m \in {1, 2}}
    \cup {PlanCase(<<Bowl, Wrap, Taco>>, 1000, prot, m, 1) :
            prot \in {<<>>, <<80>>}, m \in {1, 2, DEFAULT_MEALS_PER_DAY}}
    \cup {PlanCase(<<Bowl, Wrap, Taco>>, 1500, <<>>, DEFAULT_MEALS_PER_DAY, d) :
            d \in (-1)..MaxDays}
    \cup {PlanCase(Ladder(BigCatalog), 1000, <<>>, m, 1) : m \in {1, BigCatalog}}
    \cup {PlanCase(<<Bowl>>, 1000, <<>>, -1, 1)}
    \cup {PlanCase(<<Bowl, Wrap, Taco>>, 800, <<>>, 1, 1)}

\* generate_plan called directly.
InitPlan ==
    /\ entry = "call"
    /\ pc = "generate_plan"
    /\ TypeOKInit
    /\ \E c \in PlanCases :
          /\ MENU = c.cat
          /\ calories = c.cal
          /\ protein_g_override = c.prot
          /\ meals_per_day = c.m
          /\ days = c.d
    /\ cuisine = NONE
    /\ chain = NONE
    /\ rng = Unseeded
    /\ seed = Unseeded

NextPlan ==
    \/ GeneratePlan
    \/ EnterPickCombo
    \/ Trial
    \/ EndTrials
    \/ Refine
    \/ EndRefine
    \/ ReturnCombo
    \/ ReturnPlan

SpecPlan == InitPlan /\ [][NextPlan]_vars

\* The calls of generate_plan made after random.seed: the empty catalog, one
\* entry, and three entries drawn one and two at a time on one and two days
\* (the refinement loop runs), and all three at once; two entries alike,
\* whose draws score the same; and a target of 800 kcal, for which Bowl
\* scores least from outside the calorie band and Wrap lies inside it.
SeededCases ==
    {PlanCase(<<Bowl, Wrap, Taco>>, 1000, <<>>, m, d) : m \in {1, 2}, d \in {1, 2}}
    \cup {PlanCase(<<Bowl, Wrap, Taco>>, 1500, <<>>, DEFAULT_MEALS_PER_DAY, 1),
          PlanCase(<<Bowl>>, 1000, <<>>, 1, 1),
          PlanCase(<<>>, 1000, <<>>, 1, 1),
          PlanCase(<<Taco, Taco>>, 1000, <<>>, 1, 1),
          PlanCase(<<Bowl, Wrap, Taco>>, 800, <<>>, 1, 1)}

\* generate_plan called directly after random.seed.
InitSeeded ==
    /\ entry = "call"
    /\ pc = "generate_plan"
    /\ TypeOKInit
    /\ \E c \in SeededCases :
          /\ MENU = c.cat
          /\ calories = c.cal
          /\ protein_g_override = c.prot
          /\ meals_per_day = c.m
          /\ days = c.d
    /\ cuisine = NONE
    /\ chain = NONE
    /\ rng \in {<< g >> : g \in 0..(Period - 1)}
    /\ seed = rng

\* One request at a time.
SpecSeeded == InitSeeded /\ [][NextPlan]_vars

NextShared ==
    \/ GeneratePlan
    \/ EnterPickCombo
    \/ Trial
    \/ EndTrials
    \/ Refine
    \/ EndRefine
    \/ ReturnCombo
    \/ ReturnPlan
    \/ OtherRequestDraws

\* A request served while other requests are.
SpecShared == InitSeeded /\ [][NextShared]_vars

\* The calls of generate_plan followed to their end: the empty catalog, one
\* entry inside and outside the calorie band, three entries on two days, the
\* largest catalog drawn whole, and a draw size random.sample rejects.
TerminationCases ==
    { PlanCase(<<>>, 1000, <<>>, 1, 1),
      PlanCase(<<Bowl>>, 500, <<>>, 1, 1),
      PlanCase(<<Bowl>>, 1000, <<>>, 1, 1),
      PlanCase(<<Bowl, Wrap, Taco>>, 1000, <<>>, 2, 2),
      PlanCase(Ladder(BigCatalog), 1000, <<>>, BigCatalog, 1),
      PlanCase(<<Bowl>>, 1000, <<>>, -1, 1) }

InitTermination ==
    /\ entry = "call"
    /\ pc = "generate_plan"
    /\ TypeOKInit
    /\ \E c \in TerminationCases :
          /\ MENU = c.cat
          /\ calories = c.cal
          /\ protein_g_override = c.prot
          /\ meals_per_day = c.m
          /\ days = c.d
    /\ cuisine = NONE
    /\ chain = NONE
    /\ rng = Unseeded
    /\ seed = Unseeded

\* generate_plan called directly and run to its end: the interpreter takes
\* the next step of the call whenever there is one.
SpecPlanFair == InitTermination /\ [][NextPlan]_vars /\ WF_vars(NextPlan)

\* filter_menu called directly.
InitFilter ==
    /\ entry = "filter"
    /\ pc = "filter"
    /\ TypeOKInit
    /\ MENU \in Catalogs
    /\ cuisine \in CuisineInputs
    /\ chain \in ChainInputs
    /\ calories = 0
    /\ days = 0
    /\ protein_g_override = <<>>
    /\ meals_per_day = DEFAULT_MEALS_PER_DAY
    /\ rng = Unseeded
    /\ seed = Unseeded

SpecFilter == InitFilter /\ [][FilterMenu]_vars

\* A request with every parameter missing.
BlankReq ==
    [calories |-> NONE, tdee |-> NONE, goal |-> NONE, sex |-> NONE,
     weight_lb |-> NONE, height_in |-> NONE, age |-> NONE, activity |-> NONE,
     cuisine |-> NONE, chain |-> NONE, days |-> NONE, meals_per_day |-> NONE]

\* Query-string values: missing, empty, well-formed, zero, negative, not a
\* number, a decimal where int() is applied, non-finite floats.
CaloriesInputs == { NONE, <<>>, <<"1","8","0","0">>, <<"0">>, <<"-","1","0","0">>, <<"a","b","c">>, <<"1","8","0","0",".","5">> }

TdeeInputs == { NONE, <<"2","4","0","0">>, <<"5","5">>, <<"a","b","c">>, <<"-","3","0","0">> }

GoalInputs == { NONE, <<>>, <<"m","a","i","n","t","a","i","n">>, <<"G","A","I","N","1","0">>, <<"b","u","l","k">> }

SexInputs == { NONE, <<"M","a","l","e">>, <<"f">> }

WeightInputs == { NONE, <<"1","8","0",".","5">>, <<"0">>, <<"a","b","c">>, <<"n","a","n">>, <<"-","5">> }

HeightInputs == { NONE, <<"7","0">>, <<"x">> }

AgeInputs == { NONE, <<"3","0">>, <<"3","0",".","5">> }

ActivityInputs == { NONE, <<>>, <<"v","e","r","y">>, <<"S","E","D","E","N","T","A","R","Y">>, <<"c","o","u","c","h">> }

DaysInputs == { NONE, <<>>, <<"a","b","c">>, <<"0">>, <<"1">>, <<"-","1">>, <<"2",".","5">> }

MealsInputs == { NONE, <<>>, <<"2">>, <<"3">>, <<"7">>, <<"a","b","c">> }

S_0 == <<"0">>

S_1 == <<"1">>

\* Body weights for the protein target: heavy enough that the protein
\* calories pass the calorie target, below one pound, at the edge of the
\* 0.8 x weight bound, negative.
WeightProbes == { <<"4","0","0">>, <<"0",".","4">>, <<"1",".","5">>, <<"2",".","5">>, <<"3">>,
                  <<"-","1","5","0">>, <<"i","n","f">> }

\* The requests of the web entry.  The resolution inputs are crossed with
\* days = "0" (no day is sampled); the days and meals inputs, the activity
\* levels and the filters come with a few resolutions each.
WebRequests ==
    {[BlankReq EXCEPT !.calories = c, !.tdee = td, !.goal = g, !.sex = sx,
                      !.weight_lb = w, !.height_in = h, !.age = a, !.days = S_0] :
        c \in CaloriesInputs, td \in TdeeInputs, g \in GoalInputs, sx \in SexInputs,
        w \in WeightInputs, h \in HeightInputs, a \in AgeInputs}
    \cup {[BlankReq EXCEPT !.sex = sx, !.weight_lb = <<"1","8","0",".","5">>, !.height_in = <<"7","0">>,
                           !.age = <<"3","0">>, !.activity = act, !.goal = g, !.days = S_0] :
            sx \in SexInputs, act \in ActivityInputs, g \in GoalInputs}
    \cup {[BlankReq EXCEPT !.calories = c, !.days = d] :
            c \in {NONE, <<"1","2","0","0">>, <<"a","b","c">>}, d \in DaysInputs}
    \cup {[BlankReq EXCEPT !.meals_per_day = m, !.days = S_1, !.weight_lb = w] :
            m \in MealsInputs, w \in {NONE, <<"1","8","0",".","5">>}}
    \cup {[BlankReq EXCEPT !.cuisine = cu, !.chain = ch, !.days = S_1] :
            cu \in {<<>>, <<"t","E">>, <<"z","z">>}, ch \in {NONE, <<"k","f","c">>}}
    \cup {[BlankReq EXCEPT !.calories = c, !.weight_lb = w, !.days = S_0] :
            c \in {NONE, <<"6","0","0">>}, w \in WeightProbes}

\* The arguments of the headless CLI, as argparse types them.
CliArgs ==
    {[calories |-> c, tdee |-> td, goal |-> g, sex |-> sx, weight_lb |-> w,
      height_in |-> h, age |-> a, activity |-> S_moderate,
      cuisine |-> NONE, chain |-> NONE, days |-> 0, meals_per_day |-> m] :
        c \in {<<>>, <<0>>, <<1800>>, <<-100>>}, td \in {<<>>, <<0>>, <<2400>>, <<55>>},
        g \in { S_loss25, <<"m","a","i","n","t","a","i","n">>, <<"g","a","i","n","1","0">>, <<"b","u","l","k">>, <<>> },
        sx \in {NONE, <<"m">>}, w \in {<<>>, <<0>>, <<1805>>}, h \in {<<>>, <<700>>},
        a \in {<<>>, <<30>>}, m \in {2}}
    \cup {[calories |-> <<>>, tdee |-> <<>>, goal |-> S_loss25, sex |-> <<"f">>,
           weight_lb |-> <<1805>>, height_in |-> <<700>>, age |-> <<30>>, activity |-> act,
           cuisine |-> <<"t","h","a","i">>, chain |-> NONE, days |-> d, meals_per_day |-> m] :
            act \in { S_moderate, <<"a","t","h","l","e","t","e">> }, d \in {0, 1}, m \in {2, 3, DEFAULT_MEALS_PER_DAY}}

InitRequest ==
    /\ pc = "request"
    /\ MENU = <<Bowl, Wrap>>
    /\ \/ entry = "web" /\ req \in WebRequests
       \/ entry = "cli" /\ req \in CliArgs
    /\ calories_resolved = 0
    /\ meta_note = NoNote
    /\ calories = 0
    /\ cuisine = NONE
    /\ chain = NONE
    /\ days = 0
    /\ protein_g_override = <<>>
    /\ meals_per_day = 0
    /\ menu = <<>>
    /\ targets = <<0, 0, 0>>
    /\ plan_days = <<>>
    /\ top_pool = <<>>
    /\ TRIES = 0
    /\ trial = 0
    /\ best_score = <<>>
    /\ best_combo = <<>>
    /\ best_meta = <<>>
    /\ data = NoData
    /\ rng = Unseeded
    /\ seed = Unseeded

\* The web and the CLI entry, from the request to the plan.
Spec == InitRequest /\ [][Next]_vars

\* The largest calorie target and the largest protein override handed to
\* macro_targets directly.
MaxCalories == 700

MaxProtein == 40

\* Calorie targets: a run through zero, and everyday targets.
CalorieTargets == ((-50)..MaxCalories) \cup {1500, 1800, 2000, 2200, 3000}

\* Protein values: None, and a run through zero.
ProteinValues == {<<>>} \cup {<<g>> : g \in (-5)..MaxProtein} \cup {<<180>>, <<400>>}

\* The largest TDEE handed to calorie_goal_from_tdee directly.
MaxTdee == 200

\* TDEE values: a run through zero, and everyday values.
TdeeValues == ((-MaxTdee)..MaxTdee) \cup {1800, 2000, 2400, 3000}

\* Goal strings: the three keywords, capitals, an unknown word, empty, None.
GoalValues == GoalInputs \cup { S_loss25, <<"g","a","i","n","1","0">>, <<"L","o","s","s","2","5">> }

\* Entries that differ in calories only.
Lean(k) == Item("lean", S_Sub, S_Thai, k, 25, 54, 10)

\* The catalog scored directly: three chains' worth of entries and three
\* entries alike in everything but calories.
ScorePool == << Bowl, Wrap, Taco, Lean(300), Lean(500), Lean(900) >>

\* The largest combo scored directly.
MaxCombo == 3

ScoreCombos == UNION {Increasing(1, Len(ScorePool), k) : k \in 0..MaxCombo}

\* Targets below, at and above the totals of the combos; fat 12 puts the 15 g
\* of Bowl at 125 %, carbs 40 puts the 54 g of a lean entry at 135 %.
ScoreTargets ==
    {<<cal, p, c, f>> : cal \in {500, 1000, 1200}, p \in {0, 50, 100},
                        c \in {0, 40, 100}, f \in {0, 12, 40}}

\* The functions called directly, each on its own inputs.
InitFunctions ==
    /\ calories_resolved = 0
    /\ meta_note = NoNote
    /\ plan_days = <<>>
    /\ top_pool = <<>>
    /\ TRIES = 0
    /\ trial = 0
    /\ best_score = <<>>
    /\ best_meta = <<>>
    /\ data = NoData
    /\ rng = Unseeded
    /\ seed = Unseeded
    /\ cuisine = NONE
    /\ chain = NONE
    /\ days = 0
    /\ meals_per_day = DEFAULT_MEALS_PER_DAY
    /\ \/ /\ entry = "macro_targets"
          /\ pc = "macro_targets"
          /\ req = BlankReq
          /\ MENU = <<>>
          /\ calories \in CalorieTargets
          /\ protein_g_override \in ProteinValues
          /\ menu = <<>>
          /\ targets = <<0, 0, 0>>
          /\ best_combo = <<>>
       \/ /\ entry = "calorie_goal"
          /\ pc = "calorie_goal"
          /\ \E t \in TdeeValues, g \in GoalValues :
                req = [BlankReq EXCEPT !.tdee = <<t>>, !.goal = g]
          /\ MENU = <<>>
          /\ calories = 0
          /\ protein_g_override = <<>>
          /\ menu = <<>>
          /\ targets = <<0, 0, 0>>
          /\ best_combo = <<>>
       \/ /\ entry = "score_combo"
          /\ pc = "score_combo"
          /\ req = BlankReq
          /\ MENU = ScorePool
          /\ menu = ScorePool
          /\ protein_g_override = <<>>
          /\ \E picks \in ScoreCombos, t \in ScoreTargets :
                /\ best_combo = << picks >>
                /\ calories = t[1]
                /\ targets = << t[2], t[3], t[4] >>

NextFunctions ==
    \/ MacroTargets
    \/ CalorieGoal
    \/ ScoreCombo

SpecFunctions == InitFunctions /\ [][NextFunctions]_vars

(***************************************************************************)
(* Properties                                                              *)
(***************************************************************************)
\* C1: for every pool and every meals_per_day >= 1, the combo pick_combo
\* returns has exactly min(meals_per_day, |pool|) items, |pool| being the size
\* of the pool passed in.
C1_ComboLengthIsMinOfMealsAndPool ==
    meals_per_day >= 1 =>
        \A i \in 1..Len(plan_days) :
            Len(plan_days[i].items) = Min(meals_per_day, Len(menu))

\* A catalog entry satisfies the cuisine constraint: absent or empty restricts
\* nothing, otherwise the entry's cuisine starts with it, letter case ignored.
CuisineMatches(item, cu) ==
    Truthy(cu) =>
        /\ Len(cu) <= Len(item.cuisine)
        /\ \A i \in 1..Len(cu) : LowerChar(item.cuisine[i]) = LowerChar(cu[i])

\* A catalog entry satisfies the chain constraint: absent or empty restricts
\* nothing, otherwise the entry's chain equals it, letter case ignored.
ChainMatches(item, ch) ==
    Truthy(ch) =>
        /\ Len(ch) = Len(item.chain)
        /\ \A i \in 1..Len(ch) : LowerChar(item.chain[i]) = LowerChar(ch[i])

\* The positions of the catalog that satisfy both constraints.
MatchingPositions ==
    {i \in 1..Len(MENU) : CuisineMatches(MENU[i], cuisine) /\ ChainMatches(MENU[i], chain)}

\* C2: when the cuisine/chain combination matches no catalog entry,
\* filter_menu returns the catalog itself, same entries in the same order; the
\* pool returned is empty only when the catalog is empty.
C2_NoMatchReturnsCatalog ==
    pc = "filtered" =>
        /\ (MatchingPositions = {} => menu = MENU)
        /\ (menu = <<>> => MENU = <<>>)

\* C2's case: a three-entry catalog, a cuisine that matches nothing, and the
\* whole catalog returned.
C2_Witness ==
    /\ pc = "filtered"
    /\ Len(MENU) = 3
    /\ cuisine = <<"z","z">>
    /\ MatchingPositions = {}
    /\ menu = MENU

\* C3: when at least one catalog entry matches, filter_menu returns exactly
\* the matching entries in catalog order: cuisine by case-insensitive prefix,
\* chain by case-insensitive equality, both when both are given.
C3_ReturnsExactlyTheMatches ==
    (pc = "filtered" /\ MatchingPositions # {}) =>
        /\ Len(menu) = Cardinality(MatchingPositions)
        /\ \A r \in 1..Len(menu) :
              menu[r] = MENU[CHOOSE i \in MatchingPositions :
                                Cardinality({j \in MatchingPositions : j < i}) = r - 1]

\* C3's case: both constraints given in another letter case, the cuisine a
\* proper prefix; two of the three entries are returned, in catalog order.
C3_Witness ==
    /\ pc = "filtered"
    /\ MENU = <<Bowl, Wrap, Taco>>
    /\ cuisine = <<"t","E">>
    /\ chain = <<"k","f","c">>
    /\ menu = <<Bowl, Taco>>

\* C4: for every requested day count and every meals_per_day >= 1, the plan
\* generate_plan returns lists exactly `days` days, records a `days` field
\* equal to the length of that list, and no day holds more than meals_per_day
\* items.
C4_PlanHasRequestedDays ==
    (pc = "done" /\ meals_per_day >= 1) =>
        /\ Len(data.plan) = days
        /\ data.days = Len(data.plan)
        /\ \A i \in 1..Len(data.plan) : Len(data.plan[i].items) <= meals_per_day

\* C5: with an empty pool, whatever the targets and for any
\* meals_per_day >= 1, pick_combo raises nothing and returns an empty combo
\* with totals K = P = C = F = 0, so every day of a plan over an empty catalog
\* is empty with all-zero totals.
C5_EmptyPoolGivesEmptyDays ==
    (MENU = <<>> /\ meals_per_day >= 1) =>
        /\ pc # "raised"
        /\ \A i \in 1..Len(plan_days) :
              /\ plan_days[i].items = <<>>
              /\ plan_days[i].K = 0 /\ plan_days[i].P = 0
              /\ plan_days[i].C = 0 /\ plan_days[i].F = 0
        /\ pc = "done" => \A i \in 1..Len(data.plan) :
              /\ data.plan[i].items = <<>>
              /\ data.plan[i].K = 0 /\ data.plan[i].P = 0
              /\ data.plan[i].C = 0 /\ data.plan[i].F = 0

\* C5's case: a two-day plan over the empty catalog has been returned, for a
\* calorie target far enough from 0 that the refinement loop ran each day.
C5_Witness ==
    /\ pc = "done"
    /\ MENU = <<>>
    /\ calories = 1000
    /\ meals_per_day = DEFAULT_MEALS_PER_DAY
    /\ Len(data.plan) = 2
    /\ data.plan[2].items = <<>>
    /\ data.plan[2].K = 0

\* The target resolution of the run is over.
Resolved == entry \in {"web", "cli"} /\ pc \notin {"request", "raised"}

\* A request value is given: present and not empty.
Given(v) == v # NONE /\ Len(v) > 0

\* A given value that int() rejects, that float() rejects.
BadInt(v) == Given(v) /\ ~IntParses(v)

BadFloat(v) == Given(v) /\ ~FloatParses(v)

FourStatsGiven ==
    Given(req.sex) /\ Given(req.weight_lb) /\ Given(req.height_in) /\ Given(req.age)

\* C6: for every request mapping, missing and unparseable numeric values
\* included (calories, tdee, weight_lb, height_in, age, days, meals_per_day),
\* _resolve_from_request returns a plan that carries a resolution note and
\* never raises to its caller.
C6_RequestNeverRaises ==
    entry = "web" =>
        /\ pc # "raised"
        /\ pc = "done" => data.note # NoNote

\* C7 as stated: any unparseable numeric string among calories, tdee, weight,
\* height and age makes resolution fall back to exactly 2000, with the note of
\* invalid inputs, which is not the note of missing inputs.
C7_AnyUnparseableFallsBack ==
    (entry = "web" /\ Resolved
        /\ (BadInt(req.calories) \/ BadInt(req.tdee) \/ BadFloat(req.weight_lb)
            \/ BadFloat(req.height_in) \/ BadInt(req.age))) =>
        /\ calories_resolved = 2000
        /\ meta_note = InvalidNote
        /\ meta_note # FallbackNote

\* The unparseable string is in an input the precedence reaches: calories when
\* given; else tdee when given; else weight, height or age when all four body
\* stats are given.
UnparseableIsConsulted ==
    \/ BadInt(req.calories)
    \/ ~Given(req.calories) /\ BadInt(req.tdee)
    \/ /\ ~Given(req.calories) /\ ~Given(req.tdee) /\ FourStatsGiven
       /\ (BadFloat(req.weight_lb) \/ BadFloat(req.height_in) \/ BadInt(req.age))

\* C7, amended: an unparseable numeric string in an input that resolution
\* consults makes the whole resolution fall back to exactly 2000, no goal
\* multiplier applied, with the note of invalid inputs, which is not the note
\* of missing inputs.
C7_ConsultedUnparseableFallsBack ==
    (entry = "web" /\ Resolved /\ UnparseableIsConsulted) =>
        /\ calories_resolved = 2000
        /\ meta_note = InvalidNote
        /\ meta_note # FallbackNote

\* C7's case: no calories, an unparseable tdee and the default goal (loss25,
\* whose multiplier would give 1500); the plan is returned with 2000.
C7_Witness ==
    /\ pc = "done"
    /\ entry = "web"
    /\ req.calories = NONE
    /\ req.tdee = <<"a","b","c">>
    /\ req.goal = NONE
    /\ calories_resolved = 2000
    /\ data.note = InvalidNote

\* Neither explicit calories, nor a TDEE, nor a full set of body stats.
NothingSupplied ==
    IF entry = "web"
    THEN ~Given(req.calories) /\ ~Given(req.tdee) /\ ~FourStatsGiven
    ELSE /\ ~TruthyNum(req.calories) /\ ~TruthyNum(req.tdee)
         /\ ~(Given(req.sex) /\ TruthyNum(req.weight_lb) /\ TruthyNum(req.height_in)
              /\ TruthyNum(req.age))

\* C8 as stated: with neither explicit calories, nor a TDEE, nor a full set of
\* body stats, the resolved calorie target is 2000 for every goal keyword.
C8_MissingInputsGive2000 ==
    (Resolved /\ NothingSupplied) => calories_resolved = 2000

GoalIs(word) == req.goal # NONE /\ Lower(req.goal) = word

\* C8, amended: with neither explicit calories, nor a TDEE, nor a full set of
\* body stats, the TDEE defaults to 2000 and the calorie target is the goal's
\* share of it: 2000 for maintain, 2200 for gain10, 1500 for loss25 and for a
\* missing, empty or unknown goal; the web note is the fallback note.
C8_MissingInputsGiveGoalOf2000 ==
    (Resolved /\ NothingSupplied) =>
        /\ calories_resolved =
              (IF GoalIs(<<"m","a","i","n","t","a","i","n">>) THEN 2000
               ELSE IF GoalIs(<<"g","a","i","n","1","0">>) THEN 2200
               ELSE 1500)
        /\ entry = "web" => meta_note = FallbackNote

\* C8's case: nothing supplied but the goal gain10, written in capitals.
C8_Witness ==
    /\ pc = "done"
    /\ entry = "web"
    /\ NothingSupplied
    /\ req.goal = <<"G","A","I","N","1","0">>
    /\ calories_resolved = 2200
    /\ data.note = FallbackNote

C10_CalorieTargetPositive ==
    Resolved => calories_resolved > 0

\* generate_plan has computed the targets of the run.
Planned == pc \in {"day", "trials", "refine", "return_combo", "done"}

\* C11: for every calorie target and protein override that resolution
\* produces, a body-weight protein target whose calories exceed the calorie
\* target included, the protein, carb and fat targets of macro_targets are
\* all non-negative.  Stated for the positive calorie targets and the
\* non-negative protein overrides.
C11_MacroTargetsNonNegative ==
    (/\ Resolved
     /\ Planned
     /\ calories > 0
     /\ (protein_g_override # <<>> => protein_g_override[1] >= 0))
        => (targets[1] >= 0 /\ targets[2] >= 0 /\ targets[3] >= 0)

\* C12: for all calorie targets and protein values, the targets of
\* macro_targets satisfy protein_g*4 + carb_g*4 + fat_g*9 = calories up to
\* the rounding of carb_g and fat_g to whole grams: a deviation of at most
\* 0.5*4 + 0.5*9 kcal.
C12_MacrosAddUpToCalories ==
    (entry = "macro_targets" /\ pc = "returned") =>
        /\ 2 * Abs(4 * targets[1] + 4 * targets[2] + 9 * targets[3] - calories) <= 13
        /\ protein_g_override # <<>> => targets[1] = protein_g_override[1]

\* C12's case: the default protein share of 1500 kcal, with a remainder that
\* neither 8 nor 18 divides, so that both roundings act.
C12_Witness ==
    /\ entry = "macro_targets"
    /\ pc = "returned"
    /\ calories = 1500
    /\ protein_g_override = <<>>
    /\ targets = <<131, 122, 54>>

\* The body weight of the run in tenths of a pound, <<>> when there is none:
\* missing, empty or not a finite number.
WeightTenths ==
    IF entry = "web"
    THEN (IF Given(req.weight_lb) /\ FloatIsDecimal(req.weight_lb)
          THEN << TenthsOf(req.weight_lb) >> ELSE <<>>)
    ELSE req.weight_lb

\* g is round(0.35 x calories / 4): an integer nearest to 7 x calories / 80.
IsDefaultProtein(g) == Abs(80 * g - 7 * calories) <= 40

GoalKeyword ==
    IF Given(req.goal) THEN Lower(req.goal) ELSE <<"l","o","s","s","2","5">>

\* C14: for every integer tdee, calorie_goal_from_tdee returns
\* round(tdee x 0.75) for goal loss25, tdee for maintain and round(tdee x 1.10)
\* for gain10, the keyword read without regard to letter case; any other
\* goal string, an empty goal and a missing goal give the result of loss25.
\* round(x) is an integer nearest to x.
C14_GoalMultipliers ==
    (entry = "calorie_goal" /\ pc = "returned") =>
        LET t == req.tdee[1]
            r == calories_resolved
        IN  /\ GoalKeyword = <<"m","a","i","n","t","a","i","n">> => r = t
            /\ GoalKeyword = <<"g","a","i","n","1","0">> => Abs(10 * r - 11 * t) <= 5
            /\ GoalKeyword \notin { <<"m","a","i","n","t","a","i","n">>, <<"g","a","i","n","1","0">> } =>
                  /\ Abs(4 * r - 3 * t) <= 2
                  /\ r = calorie_goal_from_tdee(t, S_loss25)

\* C14's case: the unknown goal "bulk" with a TDEE of 2000 has returned
\* 1500, the result of loss25.
C14_Witness ==
    /\ entry = "calorie_goal"
    /\ pc = "returned"
    /\ req.tdee = <<2000>>
    /\ req.goal = <<"b","u","l","k">>
    /\ calories_resolved = 1500

\* The combo scored by a direct call of score_combo, and its chains.
ScoredPicks == best_combo[1]

ChainCount(picks) == Cardinality({menu[picks[i]].chain : i \in 1..Len(picks)})

\* C15: for every combo and targets, score_combo returns calorie_penalty +
\* protein_penalty + macro_penalty + variety_bonus, with calorie_penalty =
\* |K - cal_target|/6, protein_penalty = 8.5 x the protein shortfall,
\* macro_penalty = 0.7 x the fat above 1.25 x f_target + 0.3 x the carbs above
\* 1.35 x c_target, variety_bonus = -0.4 x (distinct chains - 1); protein above
\* target, fat up to 125 % and carbs up to 135 % of target add nothing, and a
\* single-chain combo gets no bonus.  Scores are compared times 600.
C15_ScoreFormula ==
    (entry = "score_combo" /\ pc = "returned") =>
        LET m == best_meta[1]
            p_target == targets[1]
            c_target == targets[2]
            f_target == targets[3]
            calorie_penalty == 100 * Abs(m.K - calories)
            protein_penalty == IF m.P >= p_target THEN 0 ELSE 5100 * (p_target - m.P)
            fat_penalty == IF 100 * m.F <= 125 * f_target THEN 0
                           ELSE 420 * m.F - 525 * f_target
            carb_penalty == IF 100 * m.C <= 135 * c_target THEN 0
                            ELSE 180 * m.C - 243 * c_target
            variety_bonus == IF ChainCount(ScoredPicks) = 1 THEN 0
                             ELSE -240 * (ChainCount(ScoredPicks) - 1)
        IN  /\ m = Totals(menu, ScoredPicks)
            /\ best_score[1] = calorie_penalty + protein_penalty + fat_penalty
                                 + carb_penalty + variety_bonus
            /\ (/\ m.P >= p_target /\ 100 * m.F <= 125 * f_target
                 /\ 100 * m.C <= 135 * c_target /\ ChainCount(ScoredPicks) = 1)
                  => best_score[1] = 100 * Abs(m.K - calories)

\* C15's case: the lean entry of 500 kcal alone against 1000 kcal with
\* protein 0, carbs 40 (its 54 g are exactly 135 %) and fat 40 is scored
\* |500 - 1000| / 6, the calorie penalty alone.
C15_Witness ==
    /\ entry = "score_combo"
    /\ pc = "returned"
    /\ ScoredPicks = <<5>>
    /\ calories = 1000
    /\ targets = <<0, 40, 40>>
    /\ best_score = << 50000 >>

\* Two combos that differ in calories only.
SameButCalories(a, b) ==
    /\ SumOver(menu, a, "P") = SumOver(menu, b, "P")
    /\ SumOver(menu, a, "C") = SumOver(menu, b, "C")
    /\ SumOver(menu, a, "F") = SumOver(menu, b, "F")
    /\ {menu[a[i]].chain : i \in 1..Len(a)} = {menu[b[i]].chain : i \in 1..Len(b)}

CalorieGap(picks) == Abs(SumOver(menu, picks, "K") - calories)

ScoreOf(picks) ==
    score_combo(menu, picks, calories, targets[1], targets[2], targets[3])[1]

\* C16: with the protein, carbs, fat and chain set of a combo and the targets
\* held fixed, the score is monotonically non-decreasing in |K - cal_target|:
\* a combo farther from the calorie target never scores lower than a closer
\* one.
C16_ScoreMonotoneInCalorieGap ==
    (entry = "score_combo" /\ pc = "returned") =>
        \A b \in ScoreCombos :
            SameButCalories(ScoredPicks, b) =>
                /\ CalorieGap(b) >= CalorieGap(ScoredPicks) => ScoreOf(b) >= best_score[1]
                /\ CalorieGap(b) <= CalorieGap(ScoredPicks) => ScoreOf(b) <= best_score[1]

\* C16's case: Bowl with the lean entry of 500 kcal has been scored against
\* 1200 kcal; Bowl with the lean entry of 300 kcal is farther below the
\* target, Bowl with the lean entry of 900 kcal is above it by as much.
C16_Witness ==
    /\ entry = "score_combo"
    /\ pc = "returned"
    /\ ScoredPicks = <<1, 5>>
    /\ calories = 1200
    /\ SameButCalories(<<1, 5>>, <<1, 4>>)
    /\ CalorieGap(<<1, 4>>) > CalorieGap(<<1, 5>>)
    /\ ScoreOf(<<1, 4>>) > best_score[1]
    /\ CalorieGap(<<1, 6>>) = CalorieGap(<<1, 5>>)
    /\ ScoreOf(<<1, 6>>) = best_score[1]

\* What pick_combo returns when it runs alone from generator state g: the
\* draws are those of the states g, g+1, ... in turn, and the first draw of
\* the least score is kept (the loops make more draws than the generator
\* has states, and a later draw replaces the best only when it scores
\* strictly less).  <<combo, totals, score>>.
PickOutcome(g) ==
    LET k == DrawSize(top_pool, meals_per_day)
        StateAt(j) == IF k = 0 THEN g ELSE << (g[1] + j) % Period >>
        DrawAt(j) == SampleAt(top_pool, k, StateAt(j))
        ScoreAt(j) == score_combo(menu, DrawAt(j), calories,
                                  targets[1], targets[2], targets[3])
        first == CHOOSE j \in 0..(Period - 1) :
                    /\ \A i \in 0..(Period - 1) : ScoreAt(j)[1] <= ScoreAt(i)[1]
                    /\ \A i \in 0..(j - 1) : ScoreAt(i)[1] > ScoreAt(j)[1]
    IN  << DrawAt(first), ScoreAt(first)[2], ScoreAt(first)[1] >>

\* C17: given the same random seed (the same sequence of draws) and the same
\* pool, meals_per_day and targets, two runs of pick_combo return the same
\* combo, the same totals and the same best score: what a run returns is a
\* function of the seed and of these inputs.
C17_SameSeedSameCombo ==
    pc = "return_combo" =>
        /\ best_combo = << PickOutcome(seed)[1] >>
        /\ best_meta = << PickOutcome(seed)[2] >>
        /\ best_score = << PickOutcome(seed)[3] >>

\* C17's case: pick_combo returns from three entries drawn one at a time,
\* seeded in state 1, after the main loop and the refinement loop; Bowl,
\* the entry richest in protein, scores least.
C17_Witness ==
    /\ pc = "return_combo"
    /\ MENU = <<Bowl, Wrap, Taco>>
    /\ meals_per_day = 1
    /\ seed = <<1>>
    /\ trial = RefineTries
    /\ best_combo = << <<1>> >>
    /\ best_meta = << [K |-> 500, P |-> 40, C |-> 40, F |-> 15] >>

\* C18: a request draws from a random source of its own, so that with the
\* sampling steps of other requests interleaved it returns the plan it
\* returns when it runs alone from the same seed: every day of the plan is
\* the combo and the totals of the run alone.
C18_PlanAsWhenRunningAlone ==
    (pc \in {"day", "done"} /\ plan_days # <<>>) =>
        LET day == plan_days[Len(plan_days)]
            alone == PickOutcome(seed)
        IN  /\ day.items = alone[1]
            /\ day.K = alone[2].K /\ day.P = alone[2].P
            /\ day.C = alone[2].C /\ day.F = alone[2].F

\* The positions a sequence of positions holds.
Positions(q) == {q[i] : i \in 1..Len(q)}

\* Entry i of menu is at most as far from the ideal calories per meal,
\* cal_target / max(1, meals_per_day), as entry j, pool order deciding ties.
NotFarther(i, j) ==
    LET mm == IF meals_per_day >= 1 THEN meals_per_day ELSE 1
        di == Abs(menu[i].K * mm - calories)
        dj == Abs(menu[j].K * mm - calories)
    IN  di < dj \/ (di = dj /\ i <= j)

\* max(10, floor(0.8 x |pool|))
RestrictedLimit == IF (8 * Len(menu)) \div 10 > 10 THEN (8 * Len(menu)) \div 10 ELSE 10

\* C19: pick_combo samples only from the restricted pool: the first
\* max(10, floor(0.8 x |pool|)) entries of the pool sorted ascending by
\* |calories - cal_target / meals_per_day|, ties in pool order, or the whole
\* pool when it has fewer entries; every entry of the best combo and of
\* every returned combo belongs to it.
C19_CombosComeFromRestrictedPool ==
    (pc \in {"trials", "refine", "return_combo"}
     \/ (pc \in {"day", "done"} /\ plan_days # <<>>)) =>
        /\ Len(top_pool) = IF Len(menu) < RestrictedLimit THEN Len(menu) ELSE RestrictedLimit
        /\ Positions(top_pool) \subseteq 1..Len(menu)
        /\ \A a, b \in 1..Len(top_pool) : a < b =>
               top_pool[a] # top_pool[b] /\ NotFarther(top_pool[a], top_pool[b])
        /\ \A i \in Positions(top_pool), j \in (1..Len(menu)) \ Positions(top_pool) :
               NotFarther(i, j)
        /\ best_combo # <<>> => Positions(best_combo[1]) \subseteq Positions(top_pool)
        /\ plan_days # <<>> /\ pc \in {"day", "done"} =>
               Positions(plan_days[Len(plan_days)].items) \subseteq Positions(top_pool)

\* C19's case: a plan is returned over the catalog of eleven entries, one
\* meal a day; the restricted pool has ten entries, the entry of 250 kcal,
\* the farthest from 1000, is left out, and the day has an entry.
C19_Witness ==
    /\ pc = "done"
    /\ Len(menu) = BigCatalog
    /\ meals_per_day = 1
    /\ Len(top_pool) < Len(menu)
    /\ 1 \notin Positions(top_pool)
    /\ Len(data.plan[1].items) = 1

\* C20: the pruning is a bias, not a hard filter: for every pool and targets
\* every entry of the pool can be drawn in some trial, and so can appear in a
\* returned combo: in every trial that draws at least one entry, each entry
\* of the pool is in one of the samples random.sample can return.
C20_EveryEntryCanBeDrawn ==
    (/\ pc \in {"trials", "refine"}
     /\ DrawSize(top_pool, meals_per_day) >= 1
     /\ SampleOk(top_pool, DrawSize(top_pool, meals_per_day))) =>
        \A i \in 1..Len(menu) :
            \E draw \in RandomSample(top_pool, DrawSize(top_pool, meals_per_day), rng) :
                i \in Positions(draw[1])

\* The sampling and scoring operations pick_combo has made for the day: the
\* passes of the main loop, then those of the refinement loop.
DrawsMade ==
    IF pc = "trials" THEN trial
    ELSE IF pc \in {"refine", "return_combo"} THEN TRIES + trial
    ELSE 0

\* C21 as stated: the sampling and scoring operations of one day number at
\* most TRIES, hence never more than 5000.
C21_DrawsBoundedByTries ==
    DrawsMade <= TRIES /\ DrawsMade <= TriesMax

\* C21, amended: pick_combo terminates on every input (it returns, or the
\* error of random.sample leaves it), TRIES is 250 x |restricted pool| kept
\* between 1500 and 5000, and the sampling and scoring operations of one day
\* number at most TRIES + 1500, the main loop and the refinement loop
\* together, hence never more than 6500.
C21_DrawsBoundedAndTerminates ==
    /\ [](pc \in {"trials", "refine", "return_combo"} =>
            /\ TRIES = (IF 250 * Len(top_pool) < 1500 THEN 1500
                         ELSE IF 250 * Len(top_pool) > 5000 THEN 5000
                         ELSE 250 * Len(top_pool))
            /\ DrawsMade <= TRIES + RefineTries
            /\ DrawsMade <= TriesMax + RefineTries)
    /\ ((pc = "trials") ~> (pc \in {"return_combo", "raised"}))

\* C21's case: pick_combo returns over the one-entry catalog after the main
\* loop and a refinement loop that ran out: 1500 + 1500 operations.
C21_Witness ==
    /\ pc = "return_combo"
    /\ MENU = <<Bowl>>
    /\ calories = 1000
    /\ TRIES = TriesMin
    /\ DrawsMade = TriesMin + RefineTries

\* A pass of the main loop or of the refinement loop makes its draw.
DrawMade == pc \in {"trials", "refine"} /\ trial' = trial + 1

\* The draw a pass makes from a seeded generator, and its score.
ThisDraw == SampleAt(top_pool, DrawSize(top_pool, meals_per_day), rng)

\* C22: the combo pick_combo returns is the earliest draw, over the main pass
\* and then the refinement pass, of the least score among the draws made: the
\* first draw is kept, a draw of a strictly lower score replaces the best,
\* the running best score never increases, and a draw of a score equal to or
\* above the best never replaces it.
C22_BestIsEarliestMinimum ==
    [][DrawMade =>
        /\ best_score = <<>> =>
              best_combo' = << ThisDraw >> /\ best_score' = << ScoreOf(ThisDraw) >>
        /\ (best_score # <<>> /\ ScoreOf(ThisDraw) < best_score[1]) =>
              best_combo' = << ThisDraw >> /\ best_score' = << ScoreOf(ThisDraw) >>
        /\ (best_score # <<>> /\ ScoreOf(ThisDraw) >= best_score[1]) =>
              UNCHANGED << best_score, best_combo, best_meta >>
        /\ best_score # <<>> => best_score'[1] <= best_score[1]]_vars

\* C22's case: over two entries alike, the main pass and the refinement pass
\* are over, both entries have been drawn with the same score, and the best
\* is the second entry, drawn first from generator state 1.
C22_Witness ==
    /\ pc = "return_combo"
    /\ MENU = <<Taco, Taco>>
    /\ seed = <<1>>
    /\ trial = RefineTries
    /\ best_combo = << <<2>> >>
    /\ ScoreOf(<<1>>) = best_score[1]

\* A draw of the refinement loop whose calories lie within 125 of the target.
RefineDrawInBand ==
    /\ pc = "refine"
    /\ DrawMade
    /\ Abs(Totals(menu, ThisDraw).K - calories) <= CalorieBand

\* C23: in the refinement pass, sampling stops the moment a draw has total
\* calories within 125 of the calorie target: pick_combo makes no further
\* draw after such a draw, whether or not the draw improved the best score.
C23_RefinementStopsAtAnyInBandDraw ==
    [][RefineDrawInBand => pc' = "return_combo"]_vars

\* The best draw lies more than 125 kcal from the calorie target.
BestOffBand == best_meta # <<>> /\ Abs(best_meta[1].K - calories) > CalorieBand

\* The main loop has made its last draw and pick_combo goes on.
MainPassOver == pc = "trials" /\ pc' \notin {"trials", "raised"}

\* C24: the refinement pass runs only if, after the main pass, the best
\* draw's calories differ from the target by more than 125; otherwise no
\* further draw is made and the best of the main pass is returned unchanged.
\* When it runs it makes at most 1500 draws, each from the same restricted
\* pool and of the same draw size as the main pass.
C24_RefinementOnlyWhenOffBand ==
    [][/\ MainPassOver =>
            /\ pc' = (IF BestOffBand THEN "refine" ELSE "return_combo")
            /\ trial' = 0
            /\ UNCHANGED << best_score, best_combo, best_meta >>
       /\ (pc = "return_combo" /\ trial = 0) =>
            (~BestOffBand /\ UNCHANGED << best_score, best_combo, best_meta >>)
       /\ pc = "refine" =>
            /\ trial <= RefineTries
            /\ trial' \in {trial, trial + 1}
            /\ UNCHANGED << top_pool, meals_per_day, menu >>
            /\ DrawMade =>
                  /\ trial < RefineTries
                  /\ best_combo' # best_combo =>
                        best_combo'[1] \in
                            Samples(top_pool, DrawSize(top_pool, meals_per_day))]_vars

\* C24's case: over the one-entry catalog with a target of 500 kcal the main
\* pass ends with a best draw on target, and pick_combo is at its return
\* with no refinement draw made.
C24_Witness ==
    /\ pc = "return_combo"
    /\ trial = 0
    /\ MENU = <<Bowl>>
    /\ calories = 500
    /\ best_combo = << <<1>> >>
    /\ ~BestOffBand

\* The combos of pick_combo in hand: the best so far, and the days returned.
CombosInHand ==
    (IF best_combo # <<>> THEN {best_combo[1]} ELSE {})
    \cup {plan_days[d].items : d \in 1..Len(plan_days)}
    \cup (IF pc = "done" THEN {data.plan[d].items : d \in 1..Len(data.plan)} ELSE {})

\* C25: every combo pick_combo returns is drawn without replacement: no pool
\* position appears more than once in a day's combo, every item of the combo
\* is an entry of the pool passed in, and the combo has
\* min(meals_per_day, |restricted pool|) items.
C25_CombosWithoutReplacement ==
    \A picks \in CombosInHand :
        /\ \A a, b \in 1..Len(picks) : a # b => picks[a] # picks[b]
        /\ \A a \in 1..Len(picks) : picks[a] \in 1..Len(menu)
        /\ Len(picks) = DrawSize(top_pool, meals_per_day)

\* C25's case: a plan is returned whose day lists two different entries of
\* the three-entry catalog, two meals a day.
C25_Witness ==
    /\ pc = "done"
    /\ MENU = <<Bowl, Wrap, Taco>>
    /\ meals_per_day = 2
    /\ Len(data.plan) = 1
    /\ Len(data.plan[1].items) = 2
    /\ data.plan[1].items[1] # data.plan[1].items[2]

\* The totals recorded for a day are the sums over the items it lists.
DayAddsUp(day) ==
    /\ day.K = SumOver(menu, day.items, "K")
    /\ day.P = SumOver(menu, day.items, "P")
    /\ day.C = SumOver(menu, day.items, "C")
    /\ day.F = SumOver(menu, day.items, "F")

\* C26: in every plan generate_plan returns, each day's recorded totals K,
\* P, C, F are the sums of the calories, protein, carbs and fat of exactly
\* the items listed for that day, also when the refinement pass has replaced
\* the best combo; the same holds of the best combo and its totals while
\* pick_combo runs.
C26_DayTotalsAreSumsOfItems ==
    /\ \A d \in 1..Len(plan_days) : DayAddsUp(plan_days[d])
    /\ pc = "done" => \A d \in 1..Len(data.plan) : DayAddsUp(data.plan[d])
    /\ (best_combo # <<>> /\ pc \in {"trials", "refine", "return_combo"}) =>
          /\ best_meta # <<>>
          /\ DayAddsUp([items |-> best_combo[1], K |-> best_meta[1].K,
                        P |-> best_meta[1].P, C |-> best_meta[1].C,
                        F |-> best_meta[1].F])

\* C26's case: a plan is returned whose day was replaced in the refinement
\* pass: with a target of 800 kcal and one meal a day the refinement loop
\* stopped before its 1500 draws, at the draw of Wrap that replaced a best
\* outside the calorie band, and the day lists Wrap and records its totals.
C26_Witness ==
    /\ pc = "done"
    /\ MENU = <<Bowl, Wrap, Taco>>
    /\ calories = 800
    /\ 0 < trial /\ trial < RefineTries
    /\ data.plan[1].items = <<2>>
    /\ data.plan[1].K = Wrap.K
    /\ data.plan[1].P = Wrap.P

\* C27: every item of every day of a plan generate_plan returns satisfies
\* the cuisine and chain filter values recorded in that plan (cuisine prefix
\* match and chain equality, letter case ignored): a plan never reports a
\* filter that its items do not satisfy.
C27_ItemsSatisfyRecordedFilters ==
    pc = "done" =>
        \A d \in 1..Len(data.plan) : \A a \in 1..Len(data.plan[d].items) :
            /\ CuisineMatches(menu[data.plan[d].items[a]], data.cuisine)
            /\ ChainMatches(menu[data.plan[d].items[a]], data.chain)

=============================================================================
